---- MODULE Spec2Model ----
(***************************************************************************)
(* Lifecycle orchestration of the collector charm (charm/src/charm.py):    *)
(* configuration validation, the configuration store, the artifact fetch,  *)
(* the environment/unit writer, the systemd supervisor commands and the    *)
(* six event handlers of CollectorCharm.                                   *)
(***************************************************************************)
EXTENDS Integers, Sequences, FiniteSets, TLC

\* Number of triggers (hook/action events) handled in one behaviour.
MaxTriggers == 2

\* self.model.config.get("frequency", 60)
DefaultFrequency == 60

(***************************************************************************)
(* Python values held by a configuration dictionary: None, str, int.       *)
(* A str is the sequence of its characters.                                *)
(***************************************************************************)
None == [t |-> "none", s |-> <<>>, n |-> 0]
Str(s) == [t |-> "str", s |-> s, n |-> 0]
IntV(n) == [t |-> "int", s |-> <<>>, n |-> n]

\* Python truthiness: `not v` is ~Truthy(v).
Truthy(v) == \/ v.t = "str" /\ v.s # <<>>
             \/ v.t = "int" /\ v.n # 0

\* str.startswith(prefix)
StartsWith(v, p) == /\ v.t = "str"
                    /\ Len(v.s) >= Len(p)
                    /\ SubSeq(v.s, 1, Len(p)) = p

DigitChars == <<"0", "1", "2", "3", "4", "5", "6", "7", "8", "9">>

RECURSIVE ToDigits(_)
ToDigits(n) == IF n < 10 THEN <<DigitChars[n + 1]>>
               ELSE ToDigits(n \div 10) \o <<DigitChars[(n % 10) + 1]>>

\* str(v), as an f-string or Template.substitute formats a value.
Format(v) == CASE v.t = "str" -> v.s
               [] v.t = "int" -> ToDigits(v.n)
               [] OTHER -> <<"N", "o", "n", "e">>

\* The keys of the dictionary _get_config builds, in insertion order.
FieldOrder == <<"frequency", "collector_name", "haproxy_name", "haproxy_url",
                "haproxy_username", "haproxy_password", "github_repo",
                "github_token", "release_tag", "sub_directory">>

Fields == {FieldOrder[i] : i \in DOMAIN FieldOrder}

\* dict.get(key): None for an absent key.
Get(d, f) == IF f \in DOMAIN d THEN d[f] ELSE None

EmptyDict == [f \in {} |-> None]

(***************************************************************************)
(* Validation.  An error is the ValueError's message: the host option it   *)
(* names and the rule it states.                                           *)
(***************************************************************************)
NoErr == [what |-> "none", arg |-> ""]
Err(what, arg) == [what |-> what, arg |-> arg]

HTTP == <<"h", "t", "t", "p">>
HTTPS_SLASHES == <<"h", "t", "t", "p", "s", ":", "/", "/">>

\* _validate_config with the github_repo check accepting any "http" prefix.
ValidateConfig_HttpRepo(config) ==
    IF ~Truthy(Get(config, "frequency")) THEN Err("required", "frequency")
    ELSE IF ~Truthy(Get(config, "collector_name")) THEN Err("required", "collector-name")
    ELSE IF ~Truthy(Get(config, "haproxy_name")) THEN Err("required", "haproxy-name")
    ELSE IF ~Truthy(Get(config, "haproxy_url")) THEN Err("required", "haproxy-url")
    ELSE IF ~StartsWith(Get(config, "haproxy_url"), HTTP) THEN Err("url", "haproxy-url")
    ELSE IF ~Truthy(Get(config, "haproxy_username")) THEN Err("required", "haproxy-username")
    ELSE IF ~Truthy(Get(config, "haproxy_password")) THEN Err("required", "haproxy-password")
    ELSE IF ~Truthy(Get(config, "github_repo")) THEN Err("required", "github-repo")
    ELSE IF ~StartsWith(Get(config, "github_repo"), HTTP) THEN Err("https", "github-repo")
    ELSE IF ~Truthy(Get(config, "github_token")) THEN Err("required", "github-token")
    ELSE IF ~Truthy(Get(config, "release_tag")) THEN Err("required", "release-tag")
    ELSE NoErr

\* CollectorCharm._validate_config: the checks in source order.
ValidateConfig(config) ==
    IF ~Truthy(Get(config, "frequency")) THEN Err("required", "frequency")
    ELSE IF ~Truthy(Get(config, "collector_name")) THEN Err("required", "collector-name")
    ELSE IF ~Truthy(Get(config, "haproxy_name")) THEN Err("required", "haproxy-name")
    ELSE IF ~Truthy(Get(config, "haproxy_url")) THEN Err("required", "haproxy-url")
    ELSE IF ~StartsWith(Get(config, "haproxy_url"), HTTP) THEN Err("url", "haproxy-url")
    ELSE IF ~Truthy(Get(config, "haproxy_username")) THEN Err("required", "haproxy-username")
    ELSE IF ~Truthy(Get(config, "haproxy_password")) THEN Err("required", "haproxy-password")
    ELSE IF ~Truthy(Get(config, "github_repo")) THEN Err("required", "github-repo")
    ELSE IF ~StartsWith(Get(config, "github_repo"), HTTPS_SLASHES) THEN Err("https", "github-repo")
    ELSE IF ~Truthy(Get(config, "github_token")) THEN Err("required", "github-token")
    ELSE IF ~Truthy(Get(config, "release_tag")) THEN Err("required", "release-tag")
    ELSE NoErr

\* ConfigValidator.validate_config: required_fields, field and option named.
RequiredFields == <<
    <<"frequency", "frequency">>,
    <<"collector_name", "collector-name">>,
    <<"haproxy_name", "haproxy-name">>,
    <<"haproxy_url", "haproxy-url">>,
    <<"haproxy_username", "haproxy-username">>,
    <<"haproxy_password", "haproxy-password">>,
    <<"github_repo", "github-repo">>,
    <<"github_token", "github-token">>,
    <<"release_tag", "release-tag">> >>

\* ConfigValidator.validate_config: the loop over required_fields, then the
\* two URL format checks.
ValidatorValidateConfig(config) ==
    LET missing == {i \in DOMAIN RequiredFields :
                        ~Truthy(Get(config, RequiredFields[i][1]))}
        first == CHOOSE i \in missing : \A j \in missing : i <= j
    IN  IF missing # {} THEN Err("required", RequiredFields[first][2])
        ELSE IF ~StartsWith(Get(config, "haproxy_url"), HTTP) THEN Err("url", "haproxy-url")
        ELSE IF ~StartsWith(Get(config, "github_repo"), HTTPS_SLASHES) THEN Err("https", "github-repo")
        ELSE NoErr

(***************************************************************************)
(* The machine a handler runs on: the files and units it touches, the      *)
(* status and workload version it reports, the effects it has performed    *)
(* (trace), the exception in flight (exc) and whether it has returned.     *)
(***************************************************************************)
Event(op, ok, arg) == [op |-> op, ok |-> ok, arg |-> arg]

Status(kind, msg, err) == [kind |-> kind, msg |-> msg, err |-> err]

\* A step runs only while no exception is in flight and the handler has not returned.
Running(m) == m.exc = NoErr /\ ~m.returned

Log(m, op, ok, arg) == [m EXCEPT !.trace = Append(@, Event(op, ok, arg))]

Raise(m, what, arg) == [m EXCEPT !.exc = Err(what, arg)]

\* self.model.unit.status = ...
SetStatus(m, kind, msg) ==
    IF Running(m) THEN [m EXCEPT !.status = Status(kind, msg, NoErr)] ELSE m

\* An except branch that sets the Blocked status and does not return.
CatchBlocked_NoReturn(m, whats, msg) ==
    IF ~m.returned /\ m.exc.what \in whats
    THEN [m EXCEPT !.status = Status("blocked", msg, m.exc), !.exc = NoErr]
    ELSE m

\* except <E> as e: self.model.unit.status = ops.BlockedStatus(f"<msg>: {e}"); return
CatchBlocked(m, whats, msg) ==
    IF ~m.returned /\ m.exc.what \in whats
    THEN [m EXCEPT !.status = Status("blocked", msg, m.exc),
                   !.exc = NoErr,
                   !.returned = TRUE]
    ELSE m

\* The exception classes `except Exception` catches and the ones this model raises.
AnyException == {"required", "url", "https", "OSError", "CalledProcessError"}
ValueErrors == {"required", "url", "https"}

\* _validate_config whose error is only logged, never raised.
Validate_Ignored(m, config) ==
    IF ~Running(m) THEN m
    ELSE Log(m, "validate", ValidateConfig(config) = NoErr, None)

\* self._validate_config(config) as a step: raises the ValueError.
Validate(m, config) ==
    IF ~Running(m) THEN m
    ELSE LET e == ValidateConfig(config)
         IN  IF e = NoErr THEN Log(m, "validate", TRUE, None)
             ELSE [Log(m, "validate", FALSE, None) EXCEPT !.exc = e]

(***************************************************************************)
(* Configuration store.  json.dumps writes the members in dictionary       *)
(* order; json.loads builds the dictionary back.                           *)
(***************************************************************************)
JsonOf(v) == CASE v.t = "str" -> [k |-> "string", s |-> v.s, n |-> 0]
               [] v.t = "int" -> [k |-> "number", s |-> <<>>, n |-> v.n]
               [] OTHER -> [k |-> "null", s |-> <<>>, n |-> 0]

PyOf(j) == CASE j.k = "string" -> Str(j.s)
             [] j.k = "number" -> IntV(j.n)
             [] OTHER -> None

\* json.dumps(config)
JsonDumps(config) ==
    [i \in DOMAIN FieldOrder |->
        [name |-> FieldOrder[i], value |-> JsonOf(config[FieldOrder[i]])]]

\* json.loads(text)
JsonLoads(text) ==
    [f \in {text[i].name : i \in DOMAIN text} |->
        PyOf(text[CHOOSE i \in DOMAIN text :
                    /\ text[i].name = f
                    /\ \A j \in DOMAIN text : text[j].name = f => j <= i].value)]

MissingFile == [kind |-> "missing", text |-> <<>>]
CorruptFile == [kind |-> "corrupt", text |-> <<>>]

\* CollectorCharm._read_config: FileNotFoundError and JSONDecodeError give {}.
ReadConfig(file) == IF file.kind = "json" THEN JsonLoads(file.text) ELSE EmptyDict

\* CollectorCharm._store_config.  open(..., "w") may fail (file untouched) and
\* the write may fail after the truncation (file left undecodable).
StoreConfig(m, config, fault) ==
    IF ~Running(m) THEN m
    ELSE IF fault.step = "store" /\ fault.how = "open"
    THEN Raise(Log(m, "store", FALSE, None), "OSError", "open config.json")
    ELSE IF fault.step = "store" /\ fault.how = "write"
    THEN Raise([Log(m, "store", FALSE, None) EXCEPT !.file = CorruptFile],
               "OSError", "write config.json")
    ELSE [Log(m, "store", TRUE, None) EXCEPT
              !.file = [kind |-> "json", text |-> JsonDumps(config)]]

(***************************************************************************)
(* Environment and unit writer.                                            *)
(***************************************************************************)
EnvLine(key, config, field) == [key |-> key, value |-> Format(config[field])]

\* _generate_environment_file opening the file for append.
GenerateEnvironmentFile_Append(m, config, fault) ==
    IF ~Running(m) THEN m
    ELSE IF fault.step = "env"
    THEN Raise(Log(m, "env", FALSE, None), "OSError", "open collector_envs")
    ELSE [Log(m, "env", TRUE, None) EXCEPT
              !.env = @ \o << EnvLine("HAPROXY_URL", config, "haproxy_url"),
                              EnvLine("HAPROXY_USERNAME", config, "haproxy_username"),
                              EnvLine("HAPROXY_PASSWORD", config, "haproxy_password") >>]

\* CollectorCharm._generate_environment_file
GenerateEnvironmentFile(m, config, fault) ==
    IF ~Running(m) THEN m
    ELSE IF fault.step = "env"
    THEN Raise(Log(m, "env", FALSE, None), "OSError", "open collector_envs")
    ELSE [Log(m, "env", TRUE, None) EXCEPT
              !.env = << EnvLine("HAPROXY_URL", config, "haproxy_url"),
                         EnvLine("HAPROXY_USERNAME", config, "haproxy_username"),
                         EnvLine("HAPROXY_PASSWORD", config, "haproxy_password") >>]

\* entrypoint = f"python3 {dest_dir}/main.py"
Entrypoint == "python3 /opt/collector/main.py"

\* systemctl daemon-reload: the supervisor loads the unit files as they are.
DaemonReload(m) == [m EXCEPT !.loaded = m.unitFiles]

\* CollectorCharm._generate_service_file
GenerateServiceFile(m, config, fault) ==
    IF ~Running(m) THEN m
    ELSE IF fault.step = "units" /\ fault.how = "open_service"
    THEN Raise(Log(m, "units", FALSE, None), "OSError", "open collector.service")
    ELSE LET m1 == [m EXCEPT !.unitFiles.service = Entrypoint]
         IN  IF fault.step = "units" /\ fault.how = "open_timer"
             THEN Raise(Log(m1, "units", FALSE, None), "OSError", "open collector.timer")
             ELSE LET m2 == [m1 EXCEPT !.unitFiles.timer =
                                            Format(Get(config, "frequency"))]
                  IN  IF fault.step = "units" /\ fault.how = "daemon_reload"
                      THEN Raise(Log(m2, "units", FALSE, None),
                                 "CalledProcessError", "systemctl daemon-reload")
                      ELSE DaemonReload(Log(m2, "units", TRUE, None))

(***************************************************************************)
(* Service supervisor: subprocess.run of systemctl commands on the two     *)
(* units.  A failing command exits non-zero and changes nothing; with      *)
(* check=True it raises CalledProcessError, without it the exit status is  *)
(* ignored.                                                                *)
(***************************************************************************)
Cmd(verb, unit) == [verb |-> verb, unit |-> unit]

\* The start commands without the timer's enable.
StartCommands_NoTimerEnable == << Cmd("start", "service"), Cmd("enable", "service"),
                                  Cmd("start", "timer") >>

StartCommands == << Cmd("start", "service"), Cmd("enable", "service"),
                    Cmd("start", "timer"), Cmd("enable", "timer") >>

StopCommands == << Cmd("stop", "service"), Cmd("disable", "service"),
                   Cmd("stop", "timer"), Cmd("disable", "timer") >>

RestartCommands == << Cmd("daemon-reload", "all"),
                      Cmd("restart", "service"), Cmd("enable", "service"),
                      Cmd("restart", "timer"), Cmd("enable", "timer") >>

\* The effect of one successful systemctl command.
Systemctl(m, c) ==
    CASE c.verb = "daemon-reload" -> DaemonReload(m)
      [] c.verb \in {"start", "restart"} -> [m EXCEPT !.units[c.unit].active = TRUE]
      [] c.verb = "stop" -> [m EXCEPT !.units[c.unit].active = FALSE]
      [] c.verb = "enable" -> [m EXCEPT !.units[c.unit].enabled = TRUE]
      [] c.verb = "disable" -> [m EXCEPT !.units[c.unit].enabled = FALSE]
      [] OTHER -> m

\* run([...], check=check) for each command from the i-th on; `failing` are the
\* positions of the commands that exit non-zero.
RECURSIVE RunCommands(_, _, _, _, _)
RunCommands(m, cmds, i, failing, check) ==
    IF i > Len(cmds) THEN m
    ELSE IF i \in failing
    THEN IF check
         THEN Raise(m, "CalledProcessError", cmds[i].verb)
         ELSE RunCommands(m, cmds, i + 1, failing, check)
    ELSE RunCommands(Systemctl(m, cmds[i]), cmds, i + 1, failing, check)

Failing(fault, step) == IF fault.step = step THEN fault.cmds ELSE {}

\* CollectorCharm._on_service_start
OnServiceStart(m, fault) ==
    IF ~Running(m) THEN m
    ELSE LET m1 == SetStatus(m, "maintenance", "Starting servcice...")
             m2 == RunCommands(m1, StartCommands, 1, Failing(fault, "start"), TRUE)
             m3 == Log(m2, "start", m2.exc = NoErr, None)
         IN  SetStatus(m3, "active", "Running")

\* CollectorCharm._on_service_stop
OnServiceStop(m, fault) ==
    IF ~Running(m) THEN m
    ELSE LET m1 == SetStatus(m, "maintenance", "Stoping servcice...")
             m2 == RunCommands(m1, StopCommands, 1, Failing(fault, "stop"), FALSE)
             m3 == Log(m2, "stop", Failing(fault, "stop") = {}, None)
         IN  SetStatus(m3, "blocked", "Stopped")

\* CollectorCharm._on_service_restart
OnServiceRestart(m, fault) ==
    IF ~Running(m) THEN m
    ELSE LET m1 == SetStatus(m, "maintenance", "Restarting servcice...")
             m2 == RunCommands(m1, RestartCommands, 1, Failing(fault, "restart"), TRUE)
             m3 == Log(m2, "restart", m2.exc = NoErr, None)
         IN  SetStatus(m3, "active", "Running")

(***************************************************************************)
(* Artifact fetch into dest_dir.                                           *)
(***************************************************************************)
NoArtifact == [state |-> "absent", repo |-> None, tag |-> None, subdir |-> None]

Artifact(state, config) ==
    [state |-> state, repo |-> Get(config, "github_repo"),
     tag |-> Get(config, "release_tag"), subdir |-> Get(config, "sub_directory")]

FetchFails(fault, how) == fault.step = "fetch" /\ fault.how = how

\* CollectorCharm._fetch_collector: the commands in order, each with check=True.
FetchCollector(m, config, fault) ==
    IF ~Running(m) THEN m
    ELSE
    LET tag == Get(config, "release_tag")
        subdir == Get(config, "sub_directory")
        failed(mm, what, arg) == Raise(Log(mm, "fetch", FALSE, tag), what, arg)
    IN  IF FetchFails(fault, "rm_scratch")
        THEN failed(m, "CalledProcessError", "rm clone_dir")
        ELSE IF FetchFails(fault, "clone")
        THEN failed(m, "CalledProcessError", "git clone")
        ELSE IF Truthy(subdir) /\ FetchFails(fault, "sparse")
        THEN failed(m, "CalledProcessError", "git sparse-checkout")
        ELSE IF FetchFails(fault, "rm_dest")
        THEN failed(m, "CalledProcessError", "rm dest_dir")
        ELSE IF FetchFails(fault, "rm_dest_partial")
        THEN failed([m EXCEPT !.artifact.state =
                         IF @ = "absent" THEN "absent" ELSE "partial"],
                    "CalledProcessError", "rm dest_dir")
        ELSE IF FetchFails(fault, "makedirs")
        THEN failed([m EXCEPT !.artifact = NoArtifact], "OSError", "makedirs")
        \* f"{clone_dir}/{subdir}/." names the directory "None" when subdir is None
        ELSE IF subdir = None
        THEN failed([m EXCEPT !.artifact = Artifact("empty", config)],
                    "CalledProcessError", "cp")
        ELSE IF FetchFails(fault, "cp")
        THEN failed([m EXCEPT !.artifact = Artifact("partial", config)],
                    "CalledProcessError", "cp")
        ELSE [Log(m, "fetch", TRUE, tag) EXCEPT !.artifact = Artifact("complete", config)]

\* self.unit.set_workload_version(config.get("release_tag"))
SetWorkloadVersion(m, config) ==
    IF ~Running(m) THEN m
    ELSE [Log(m, "set_version", TRUE, Get(config, "release_tag"))
              EXCEPT !.version = Get(config, "release_tag")]

(***************************************************************************)
(* Dependency installation.  run() without check ignores the exit status;  *)
(* a command that cannot be executed raises OSError.                       *)
(***************************************************************************)
\* run([...]) / run([...], check=True) of the k-th dependency command.
RunDependency(m, k, name, check, fault) ==
    IF ~Running(m) THEN m
    ELSE IF fault.step = "deps" /\ k \in fault.cmds
    THEN IF fault.how = "exec" THEN Raise(Log(m, name, FALSE, None), "OSError", name)
         ELSE IF check THEN Raise(Log(m, name, FALSE, None), "CalledProcessError", name)
         ELSE Log(m, name, FALSE, None)
    ELSE Log(m, name, TRUE, None)

\* CollectorCharm._install_dependencies
InstallDependencies(m, fault) ==
    RunDependency(RunDependency(m, 1, "apt python3-pip", FALSE, fault),
                  2, "pip3 requirements", TRUE, fault)

(***************************************************************************)
(* The event handlers of CollectorCharm.                                   *)
(***************************************************************************)
\* changed_configs that takes every field as changed.
ChangedConfigs_All(old_config, new_config) == DOMAIN new_config

\* changed_configs that takes a field the stored snapshot lacks as changed.
ChangedConfigs_AbsentChanged(old_config, new_config) ==
    {f \in DOMAIN new_config : f \notin DOMAIN old_config \/ old_config[f] # new_config[f]}

\* changed_configs: the fields of new_config whose stored value differs.
ChangedConfigs(old_config, new_config) ==
    {f \in DOMAIN new_config : Get(old_config, f) # new_config[f]}

\* The re-fetch condition without release_tag, and with frequency added.
FetchFields_NoTag == {"github_repo", "sub_directory"}
FetchFields_WithFrequency == {"release_tag", "github_repo", "sub_directory", "frequency"}

\* line 133: the fields whose change re-fetches the artifact.
FetchFields == {"release_tag", "github_repo", "sub_directory"}
\* line 145: the fields whose change re-renders the environment file.
EnvironmentFields == {"haproxy_url", "haproxy_username", "haproxy_password"}

\* CollectorCharm._on_install
OnInstall(m, config, fault) ==
    LET m1 == SetStatus(m, "maintenance", "Validating configuration...")
        m2 == Validate(m1, config)
        m3 == SetStatus(m2, "maintenance", "Configuration validated successfully.")
        m4 == CatchBlocked(m3, ValueErrors, "Configuration error")
        m5 == StoreConfig(m4, config, fault)
        m6 == GenerateEnvironmentFile(m5, config, fault)
        t1 == SetStatus(m6, "maintenance", "Installing dependencies...")
        t2 == RunDependency(t1, 1, "apt python3-pip", FALSE, fault)
        t3 == RunDependency(t2, 2, "apt python-is-python3", FALSE, fault)
        t4 == SetStatus(t3, "active", "Running")
    IN  IF Running(m6)
        THEN CatchBlocked(t4, AnyException, "Dependency installation failed")
        ELSE m6

\* CollectorCharm._on_config_changed
OnConfigChanged(m, new_config, fault) ==
    LET m1 == SetStatus(m, "maintenance", "Updating configuration...")
        old_config == ReadConfig(m1.file)
        m2 == Validate(m1, new_config)
        m3 == CatchBlocked(m2, ValueErrors, "Configuration error")
        changed_configs == ChangedConfigs(old_config, new_config)
        m4 == [m3 EXCEPT !.changed = IF Running(m3) THEN changed_configs ELSE {}]
        m5 == StoreConfig(m4, new_config, fault)
        t1 == FetchCollector(m5, new_config, fault)
        t2 == SetWorkloadVersion(t1, new_config)
        m6 == IF Running(m5) /\ changed_configs \cap FetchFields # {}
              THEN CatchBlocked(t2, AnyException, "Failed to fetch collector")
              ELSE m5
        m7 == IF changed_configs \cap EnvironmentFields # {}
              THEN GenerateEnvironmentFile(m6, new_config, fault)
              ELSE m6
    IN  IF ~Running(m4) THEN m4
        ELSE IF changed_configs # {} THEN OnServiceRestart(m7, fault)
        ELSE SetStatus(m4, "active", "Running")

\* _on_reload that fetches the artifact before it stops the service.
OnReload_FetchBeforeStop(m, config, fault) ==
    LET m1 == SetStatus(m, "maintenance", "Refreshing collector service...")
        m2 == SetStatus(m1, "maintenance", "Validating configuration...")
        m3 == Validate(m2, config)
        m4 == SetStatus(m3, "maintenance", "Storing configuration...")
        m5 == StoreConfig(m4, config, fault)
        m6 == SetStatus(m5, "maintenance", "Fetching collector from GitHub...")
        m7 == FetchCollector(m6, config, fault)
        m8 == OnServiceStop(m7, fault)
        m9 == SetStatus(m8, "maintenance", "Installing dependencies...")
        m10 == IF Running(m9)
               THEN CatchBlocked(InstallDependencies(m9, fault), AnyException,
                                 "Dependency installation failed")
               ELSE m9
        m11 == SetStatus(m10, "maintenance", "Generating environment file...")
        m12 == GenerateEnvironmentFile(m11, config, fault)
        m13 == SetStatus(m12, "maintenance", "Generating service file...")
        m14 == GenerateServiceFile(m13, config, fault)
        m15 == SetWorkloadVersion(m14, config)
        m16 == OnServiceStart(m15, fault)
    IN  SetStatus(m16, "active", "Running")

\* CollectorCharm._on_reload
OnReload(m, config, fault) ==
    LET m1 == SetStatus(m, "maintenance", "Refreshing collector service...")
        m2 == SetStatus(m1, "maintenance", "Validating configuration...")
        m3 == Validate(m2, config)
        m4 == SetStatus(m3, "maintenance", "Storing configuration...")
        m5 == StoreConfig(m4, config, fault)
        m6 == OnServiceStop(m5, fault)
        m7 == SetStatus(m6, "maintenance", "Fetching collector from GitHub...")
        m8 == FetchCollector(m7, config, fault)
        m9 == SetStatus(m8, "maintenance", "Installing dependencies...")
        m10 == IF Running(m9)
               THEN CatchBlocked(InstallDependencies(m9, fault), AnyException,
                                 "Dependency installation failed")
               ELSE m9
        m11 == SetStatus(m10, "maintenance", "Generating environment file...")
        m12 == GenerateEnvironmentFile(m11, config, fault)
        m13 == SetStatus(m12, "maintenance", "Generating service file...")
        m14 == GenerateServiceFile(m13, config, fault)
        m15 == SetWorkloadVersion(m14, config)
        m16 == OnServiceStart(m15, fault)
    IN  SetStatus(m16, "active", "Running")

(***************************************************************************)
(* Inputs: the configuration the host framework hands to a trigger, and    *)
(* the step of the handling that the environment makes fail.               *)
(***************************************************************************)
Chars_c1 == <<"c", "1">>
Chars_lb1 == <<"l", "b", "1">>
Chars_httpUrl == <<"h", "t", "t", "p", ":", "/", "/", "l">>
Chars_httpsUrl == <<"h", "t", "t", "p", "s", ":", "/", "/", "l">>
Chars_ftpUrl == <<"f", "t", "p", ":", "/", "/", "l">>
Chars_htt == <<"h", "t", "t">>
Chars_repo == <<"h", "t", "t", "p", "s", ":", "/", "/", "g">>
Chars_httpRepo == <<"h", "t", "t", "p", ":", "/", "/", "g">>
Chars_v1 == <<"v", "1">>
Chars_v2 == <<"v", "2">>

\* _get_config: every key is present; an option the operator left unset is None,
\* frequency defaults to 60.
BaseConfig ==
    [f \in Fields |->
        CASE f = "frequency" -> IntV(DefaultFrequency)
          [] f = "collector_name" -> Str(Chars_c1)
          [] f = "haproxy_name" -> Str(Chars_lb1)
          [] f = "haproxy_url" -> Str(Chars_httpUrl)
          [] f = "haproxy_username" -> Str(<<"u">>)
          [] f = "haproxy_password" -> Str(<<"p">>)
          [] f = "github_repo" -> Str(Chars_repo)
          [] f = "github_token" -> Str(<<"t">>)
          [] f = "release_tag" -> Str(Chars_v1)
          [] OTHER -> Str(<<"d">>)]

With(config, f, v) == [config EXCEPT ![f] = v]

\* The configurations of the orchestration runs.
Configs ==
    { BaseConfig,
      With(BaseConfig, "release_tag", Str(Chars_v2)),
      With(BaseConfig, "frequency", IntV(30)),
      With(BaseConfig, "haproxy_url", Str(Chars_httpsUrl)),
      With(BaseConfig, "sub_directory", None),
      With(BaseConfig, "release_tag", None),
      With(With(BaseConfig, "haproxy_url", Str(Chars_ftpUrl)),
           "haproxy_username", None) }

\* Every combination of present, empty, unset and malformed options.
AllConfigs ==
    [ frequency : {IntV(0), IntV(DefaultFrequency)},
      collector_name : {None, Str(Chars_c1)},
      haproxy_name : {Str(<<>>), Str(Chars_lb1)},
      haproxy_url : {None, Str(Chars_htt), Str(Chars_ftpUrl), Str(Chars_httpUrl),
                     Str(Chars_httpsUrl)},
      haproxy_username : {None, Str(<<"u">>)},
      haproxy_password : {Str(<<>>), Str(<<"p">>)},
      github_repo : {None, Str(<<>>), Str(Chars_httpRepo), Str(Chars_repo)},
      github_token : {None, Str(<<"t">>)},
      release_tag : {None, Str(Chars_v1)},
      sub_directory : {None, Str(<<>>), Str(<<"d">>)} ]

Fault(step, how, cmds) == [step |-> step, how |-> how, cmds |-> cmds]
NoFault == Fault("none", "", {})

StoreFaults == {Fault("store", h, {}) : h \in {"open", "write"}}
EnvFaults == {Fault("env", "open", {})}
FetchFaults == {Fault("fetch", h, {}) :
                    h \in {"rm_scratch", "clone", "sparse", "rm_dest",
                           "rm_dest_partial", "makedirs", "cp"}}
UnitsFaults == {Fault("units", h, {}) :
                    h \in {"open_service", "open_timer", "daemon_reload"}}
\* A dependency command exits non-zero, or cannot be executed at all.
DepsFaults == {Fault("deps", "exit", {k}) : k \in 1..2}
                  \cup {Fault("deps", "exec", {k}) : k \in 1..2}
\* One command of a checked operation exits non-zero.
StartFaults == {Fault("start", "exit", {k}) : k \in DOMAIN StartCommands}
RestartFaults == {Fault("restart", "exit", {k}) : k \in DOMAIN RestartCommands}
\* Any commands of the unchecked stop exit non-zero.
StopFaults == {Fault("stop", "exit", c) : c \in SUBSET (DOMAIN StopCommands) \ {{}}}

\* Supervisor faults inside a longer handling: the definition reload, or the
\* first command on either unit.
NestedRestartFaults == {Fault("restart", "exit", {k}) : k \in {1, 2, 4}}
NestedStartFaults == {Fault("start", "exit", {k}) : k \in {1, 3}}
NestedStopFaults == {Fault("stop", "exit", {1}), Fault("stop", "exit", DOMAIN StopCommands)}

InstallFaults == {NoFault} \cup StoreFaults \cup EnvFaults \cup DepsFaults
ConfigChangedFaults == {NoFault} \cup StoreFaults \cup FetchFaults \cup EnvFaults
                           \cup NestedRestartFaults
ReloadFaults == {NoFault} \cup StoreFaults \cup NestedStopFaults \cup FetchFaults
                    \cup DepsFaults \cup EnvFaults \cup UnitsFaults
                    \cup NestedStartFaults

(***************************************************************************)
(* State.                                                                  *)
(***************************************************************************)
VARIABLES
    file,       \* ~/.collector/config.json
    env,        \* /etc/default/collector_envs, its lines
    unitFiles,  \* collector.service (ExecStart) and collector.timer (interval)
    loaded,     \* the unit definitions the supervisor has loaded
    units,      \* the two units: active, enabled
    artifact,   \* dest_dir and the release it holds
    status,     \* self.model.unit.status
    version,    \* the reported workload version
    last,       \* the last trigger handled: the status (kind and text) it started from, its
                \* configuration, the effects it performed in order, the
                \* exception that escaped it
    steps       \* triggers handled so far

vars == <<file, env, unitFiles, loaded, units, artifact, status, version, last, steps>>

NoUnitFiles == [service |-> "", timer |-> <<>>]

Init ==
    /\ file = MissingFile
    /\ env = <<>>
    /\ unitFiles = NoUnitFiles
    /\ loaded = NoUnitFiles
    /\ units = [u \in {"service", "timer"} |-> [active |-> FALSE, enabled |-> FALSE]]
    /\ artifact = NoArtifact
    /\ status = Status("unknown", "", NoErr)
    /\ version = None
    /\ last = [trigger |-> "none", entry |-> [kind |-> "unknown", msg |-> ""],
               config |-> EmptyDict, changed |-> {}, trace |-> <<>>, exc |-> NoErr]
    /\ steps = 0

\* The machine a handler starts on: the current state, nothing performed yet.
Machine ==
    [file |-> file, env |-> env, unitFiles |-> unitFiles, loaded |-> loaded,
     units |-> units, artifact |-> artifact, status |-> status, version |-> version,
     trace |-> <<>>, exc |-> NoErr, returned |-> FALSE, changed |-> {}]

\* The state a handling leaves; an exception still in flight escaped the handler.
Commit(m, trigger, config) ==
    /\ file' = m.file
    /\ env' = m.env
    /\ unitFiles' = m.unitFiles
    /\ loaded' = m.loaded
    /\ units' = m.units
    /\ artifact' = m.artifact
    /\ status' = m.status
    /\ version' = m.version
    /\ last' = [trigger |-> trigger, entry |-> [kind |-> status.kind, msg |-> status.msg],
                config |-> config,
                changed |-> m.changed, trace |-> m.trace, exc |-> m.exc]
    /\ steps' = steps + 1

\* The faults that can strike the handling of a configuration: an invalid one
\* stops at validation.
FaultsFor(config, faults) == IF ValidateConfig(config) = NoErr THEN faults ELSE {NoFault}

\* The install hook, handled with a configuration of S.
HandleInstall(S) ==
    \E config \in S : \E fault \in FaultsFor(config, InstallFaults) :
        Commit(OnInstall(Machine, config, fault), "install", config)

\* The config-changed hook.
HandleConfigChanged(S) ==
    \E config \in S : \E fault \in FaultsFor(config, ConfigChangedFaults) :
        Commit(OnConfigChanged(Machine, config, fault), "config_changed", config)

\* The reload action.
HandleReload(S) ==
    \E config \in S : \E fault \in FaultsFor(config, ReloadFaults) :
        Commit(OnReload(Machine, config, fault), "reload", config)

Install == steps < MaxTriggers /\ HandleInstall(Configs)

ConfigChanged == steps < MaxTriggers /\ HandleConfigChanged(Configs)

Reload == steps < MaxTriggers /\ HandleReload(Configs)

Start ==
    /\ steps < MaxTriggers
    /\ \E fault \in {NoFault} \cup StartFaults :
        Commit(OnServiceStart(Machine, fault), "start", EmptyDict)

Stop ==
    /\ steps < MaxTriggers
    /\ \E fault \in {NoFault} \cup StopFaults :
        Commit(OnServiceStop(Machine, fault), "stop", EmptyDict)

Restart ==
    /\ steps < MaxTriggers
    /\ \E fault \in {NoFault} \cup RestartFaults :
        Commit(OnServiceRestart(Machine, fault), "restart", EmptyDict)

\* framework.observe(...): the events CollectorCharm.__init__ registers a
\* handler for.  The lifecycle hook "start" is not among them; the name
\* "start" is observed as an action only.
ObservedHooks == {"install", "config_changed"}
ObservedActions == {"start", "stop", "restart", "reload"}

\* The framework's start hook: dispatched to the observers of the event, of
\* which there are none, so no handler runs.
StartHook ==
    /\ steps < MaxTriggers
    /\ "start" \notin ObservedHooks
    /\ Commit(Machine, "start_hook", EmptyDict)

Next == Install \/ ConfigChanged \/ Reload \/ Start \/ Stop \/ Restart \/ StartHook

Spec == Init /\ [][Next]_vars

\* One configuration-carrying trigger handled from the initial state, over
\* every combination of options.
InstallAny == steps = 0 /\ HandleInstall(AllConfigs)

ConfigChangedAny == steps = 0 /\ HandleConfigChanged(AllConfigs)

ReloadAny == steps = 0 /\ HandleReload(AllConfigs)

NextValidate == InstallAny \/ ConfigChangedAny \/ ReloadAny

SpecValidate == Init /\ [][NextValidate]_vars

(***************************************************************************)
(* Reading the record of the last handling.                                *)
(***************************************************************************)
ConfigTriggers == {"install", "config_changed", "reload"}

TraceOps(tr) == [i \in DOMAIN tr |-> tr[i].op]

Performed(tr, op) == \E i \in DOMAIN tr : tr[i].op = op

Succeeded(tr, op) == \E i \in DOMAIN tr : tr[i].op = op /\ tr[i].ok

Failed(tr, op) == \E i \in DOMAIN tr : tr[i].op = op /\ ~tr[i].ok

Count(tr, op) == Cardinality({i \in DOMAIN tr : tr[i].op = op})

\* The positions in RequiredFields of the fields a snapshot lacks.
MissingRequired(config) ==
    {i \in DOMAIN RequiredFields : ~Truthy(config[RequiredFields[i][1]])}

\* The error the handling ended with: the one that escaped it, else the one
\* its Blocked status carries.
ReportedError == IF last.exc # NoErr THEN last.exc ELSE status.err

Active == Status("active", "Running", NoErr)

\* This step handled the given trigger.
Handled(trigger) == steps' = steps + 1 /\ last'.trigger = trigger

\* Two snapshots over the same fields that differ in exactly the field f.
OnlyDiffers(old, new, f) ==
    /\ DOMAIN old = DOMAIN new
    /\ \A g \in DOMAIN new : (old[g] # new[g]) <=> (g = f)

AllUp == \A u \in DOMAIN units : units[u].active /\ units[u].enabled

(***************************************************************************)
(* Claims.                                                                 *)
(***************************************************************************)

\* C1: whenever the snapshot of an Install, ConfigurationChanged or Reload lacks
\* a required field, validation fails with a reason naming a field the snapshot
\* lacks, and the handling performs nothing but the validation.
C1_MissingFieldNamedNoEffect ==
    (last.trigger \in ConfigTriggers /\ MissingRequired(last.config) # {}) =>
        /\ ReportedError.what \in ValueErrors
        /\ \E i \in MissingRequired(last.config) :
               ReportedError.arg = RequiredFields[i][2]
        /\ TraceOps(last.trace) = <<"validate">>
        /\ file = MissingFile /\ env = <<>> /\ artifact = NoArtifact
        /\ unitFiles = NoUnitFiles /\ \A u \in DOMAIN units : ~units[u].active

\* C2: when every required field is present and non-empty, validation succeeds
\* exactly when haproxy_url starts with "http" and github_repo with "https://".
C2_PrefixRulesDecide ==
    (last.trigger \in ConfigTriggers /\ MissingRequired(last.config) = {}) =>
        /\ last.trace[1].op = "validate"
        /\ last.trace[1].ok <=>
               /\ StartsWith(last.config["haproxy_url"], HTTP)
               /\ StartsWith(last.config["github_repo"], HTTPS_SLASHES)
        /\ ~last.trace[1].ok => ReportedError.what \in {"url", "https"}

C2_Witness ==
    /\ last.trigger = "config_changed"
    /\ MissingRequired(last.config) = {}
    /\ StartsWith(last.config["haproxy_url"], HTTP)
    /\ ~StartsWith(last.config["github_repo"], HTTPS_SLASHES)
    /\ ~last.trace[1].ok
    /\ status.kind = "blocked"

\* C3: a ConfigurationChanged whose valid snapshot equals the stored one writes
\* nothing, fetches nothing, renders nothing, runs no supervisor command, and
\* ends Active.
C3_EmptyDeltaNoEffect ==
    [][ ( /\ Handled("config_changed")
          /\ ValidateConfig(last'.config) = NoErr
          /\ ReadConfig(file) = last'.config )
        => /\ TraceOps(last'.trace) = <<"validate">>
           /\ file' = file /\ env' = env /\ unitFiles' = unitFiles
           /\ loaded' = loaded /\ units' = units /\ artifact' = artifact
           /\ version' = version
           /\ status' = Active ]_vars

C3_Witness ==
    /\ last.trigger = "config_changed"
    /\ ValidateConfig(last.config) = NoErr
    /\ ReadConfig(file) = last.config
    /\ last.changed = {}
    /\ TraceOps(last.trace) = <<"validate">>
    /\ status = Active

\* C4: a ConfigurationChanged whose valid snapshot differs from the stored one
\* only in release_tag performs, once the snapshot is stored, exactly one fetch,
\* of the new tag, and a successful fetch makes the new tag the workload version.
C4_TagChangeFetchesOnce ==
    [][ ( /\ Handled("config_changed")
          /\ ValidateConfig(last'.config) = NoErr
          /\ OnlyDiffers(ReadConfig(file), last'.config, "release_tag")
          /\ Succeeded(last'.trace, "store") )
        => /\ Count(last'.trace, "fetch") = 1
           /\ \A i \in DOMAIN last'.trace :
                  last'.trace[i].op = "fetch" =>
                      /\ last'.trace[i].arg = last'.config["release_tag"]
                      /\ last'.trace[i].ok => version' = last'.config["release_tag"] ]_vars

C4_Witness ==
    /\ last.trigger = "config_changed"
    /\ last.changed = {"release_tag"}
    /\ Succeeded(last.trace, "fetch")
    /\ version = last.config["release_tag"]
    /\ artifact.state = "complete" /\ artifact.tag = last.config["release_tag"]

\* C5: a ConfigurationChanged whose valid snapshot differs from the stored one
\* only in frequency runs, once the snapshot is stored, the supervisor restart
\* and no fetch.
C5_FrequencyChangeRestarts ==
    [][ ( /\ Handled("config_changed")
          /\ ValidateConfig(last'.config) = NoErr
          /\ OnlyDiffers(ReadConfig(file), last'.config, "frequency")
          /\ Succeeded(last'.trace, "store") )
        => /\ Count(last'.trace, "restart") = 1
           /\ Count(last'.trace, "fetch") = 0
           /\ artifact' = artifact ]_vars

C5_Witness ==
    /\ last.trigger = "config_changed"
    /\ last.changed = {"frequency"}
    /\ Succeeded(last.trace, "restart")
    /\ ~Performed(last.trace, "fetch")
    /\ status = Active

C7_StopThenStart ==
    [][ ( /\ last.trigger = "stop" /\ Succeeded(last.trace, "stop")
          /\ Handled("start") /\ Succeeded(last'.trace, "start") )
        => /\ status = Status("blocked", "Stopped", NoErr)
           /\ status' = Active
           /\ \A u \in {"service", "timer"} : units'[u].active /\ units'[u].enabled ]_vars

C7_Witness ==
    /\ last.trigger = "start"
    /\ last.entry = [kind |-> "blocked", msg |-> "Stopped"]
    /\ Succeeded(last.trace, "start")
    /\ status = Active
    /\ AllUp

\* The two apt commands of Install both ran and exited zero.
InstallDependenciesSucceeded ==
    /\ Succeeded(last.trace, "apt python3-pip")
    /\ Succeeded(last.trace, "apt python-is-python3")

\* C8: an Install of a valid snapshot whose dependency installation succeeds
\* leaves the stored snapshot equal to it, the environment file holding exactly
\* the HAPROXY_URL, HAPROXY_USERNAME and HAPROXY_PASSWORD lines with its values,
\* and the status Active.
C8_InstallStoresAndRenders ==
    (last.trigger = "install" /\ InstallDependenciesSucceeded) =>
        /\ ReadConfig(file) = last.config
        /\ env = << [key |-> "HAPROXY_URL", value |-> last.config["haproxy_url"].s],
                    [key |-> "HAPROXY_USERNAME", value |-> last.config["haproxy_username"].s],
                    [key |-> "HAPROXY_PASSWORD", value |-> last.config["haproxy_password"].s] >>
        /\ status = Active

C8_Witness ==
    /\ last.trigger = "install"
    /\ InstallDependenciesSucceeded
    /\ last.entry.kind = "active"
    /\ ReadConfig(file) = last.config
    /\ Len(env) = 3
    /\ env[1].value = last.config["haproxy_url"].s
    /\ last.config["haproxy_url"].s = Chars_httpsUrl
    /\ status = Active

\* C9: in an Install of a valid snapshot that reaches the dependency
\* installation, a failing package-manager command leaves the status Blocked
\* with the dependency failure, and the status is Active only when both
\* commands succeeded.
C9_DependencyFailureBlocks ==
    (last.trigger = "install" /\ Performed(last.trace, "apt python3-pip")) =>
        /\ ~InstallDependenciesSucceeded =>
               /\ status.kind = "blocked"
               /\ status.msg = "Dependency installation failed"
        /\ status.kind = "active" => InstallDependenciesSucceeded

\* C10: when a ConfigurationChanged whose delta touches release_tag,
\* github_repo or sub_directory has its fetch fail, the status is Blocked
\* carrying the fetch failure, nothing escapes, and that handling neither
\* updates the workload version nor renders the environment file nor runs the
\* restart.
C10_FetchFailureStops ==
    [][ ( /\ Handled("config_changed")
          /\ last'.changed \cap FetchFields # {}
          /\ Failed(last'.trace, "fetch") )
        => /\ status'.kind = "blocked"
           /\ status'.msg = "Failed to fetch collector"
           /\ status'.err # NoErr
           /\ last'.exc = NoErr
           /\ version' = version
           /\ env' = env
           /\ units' = units /\ loaded' = loaded
           /\ ~Performed(last'.trace, "set_version")
           /\ ~Performed(last'.trace, "env")
           /\ ~Performed(last'.trace, "restart") ]_vars

C10_Witness ==
    /\ last.trigger = "config_changed"
    /\ last.changed \cap FetchFields # {}
    /\ last.changed \cap EnvironmentFields # {}
    /\ Failed(last.trace, "fetch")
    /\ status.kind = "blocked"
    /\ status.msg = "Failed to fetch collector"
    /\ version # last.config["release_tag"]

\* C11: in a ConfigurationChanged with a non-empty delta the snapshot is
\* written to the store after the fetch and the environment render and before
\* the restart, so that a failed fetch leaves the stored file as it was.
C11_StoreAfterSideEffects ==
    [][ (Handled("config_changed") /\ last'.changed # {})
        => LET tr == last'.trace
           IN  /\ \A i, j \in DOMAIN tr :
                      (tr[i].op = "store" /\ tr[j].op \in {"fetch", "env"}) => j < i
               /\ \A i, j \in DOMAIN tr :
                      (tr[i].op = "store" /\ tr[j].op = "restart") => i < j
               /\ Failed(tr, "fetch") => file' = file ]_vars

\* C12: the Start action ends Active when its supervisor commands succeed and
\* Blocked carrying the reason, with nothing escaping, when one of them fails.
C12_StartOutcome ==
    last.trigger = "start" =>
        /\ Performed(last.trace, "start")
        /\ Succeeded(last.trace, "start") => status = Active
        /\ Failed(last.trace, "start") =>
               /\ status.kind = "blocked" /\ status.err # NoErr
               /\ last.exc = NoErr

\* C13: the Restart action ends Active when the definition reload and every
\* unit command succeed and Blocked carrying the reason, with nothing escaping,
\* when one of them fails.
C13_RestartOutcome ==
    last.trigger = "restart" =>
        /\ Performed(last.trace, "restart")
        /\ Succeeded(last.trace, "restart") => status = Active
        /\ Failed(last.trace, "restart") =>
               /\ status.kind = "blocked" /\ status.err # NoErr
               /\ last.exc = NoErr

\* C14: the Stop action ends Blocked("Stopped") when its supervisor commands
\* succeed and Blocked carrying the failure reason, not the text "Stopped",
\* when one of them fails.
C14_StopOutcome ==
    last.trigger = "stop" =>
        /\ Performed(last.trace, "stop")
        /\ status.kind = "blocked"
        /\ Succeeded(last.trace, "stop") => status = Status("blocked", "Stopped", NoErr)
        /\ Failed(last.trace, "stop") => (status.msg # "Stopped" /\ status.err # NoErr)

\* The order of the operations of a Reload in which nothing fails.
ReloadOrder ==
    <<"validate", "store", "stop", "fetch", "apt python3-pip", "pip3 requirements",
      "env", "units", "set_version", "start">>

AllSucceeded(tr) == \A i \in DOMAIN tr : tr[i].ok

\* C15: a Reload in which every step succeeds performs validate, store, stop,
\* fetch, install dependencies, render environment, render units (with the
\* definition reload), set version to release_tag, start -- once each, in this
\* order -- and ends Active.
C15_ReloadOrder ==
    (last.trigger = "reload" /\ AllSucceeded(last.trace) /\ last.exc = NoErr)
        => /\ TraceOps(last.trace) = ReloadOrder
           /\ status = Active
           /\ version = Get(last.config, "release_tag")
           /\ ReadConfig(file) = last.config
           /\ loaded = unitFiles
           /\ AllUp

C15_Witness ==
    /\ last.trigger = "reload"
    /\ AllSucceeded(last.trace)
    /\ TraceOps(last.trace) = ReloadOrder
    /\ status = Active
    /\ version = Str(Chars_v2)

\* The step of Reload an operation of the trace belongs to.
ReloadStep(op) ==
    CASE op = "validate" -> 1
      [] op = "store" -> 2
      [] op = "stop" -> 3
      [] op = "fetch" -> 4
      [] op \in {"apt python3-pip", "pip3 requirements"} -> 5
      [] op = "env" -> 6
      [] op = "units" -> 7
      [] op = "set_version" -> 8
      [] OTHER -> 9

\* C16: in a Reload the failure of a step ends the handling Blocked with a
\* reason, no later step is executed, and what the earlier steps did (here the
\* stored snapshot) remains.
C16_ReloadFailureBlocks ==
    (last.trigger = "reload" /\ ~AllSucceeded(last.trace))
        => LET tr == last.trace
           IN  /\ status.kind = "blocked" /\ status.err # NoErr
               /\ last.exc = NoErr
               /\ \A i, j \in DOMAIN tr :
                      (~tr[i].ok /\ i < j) => ReloadStep(tr[j].op) = ReloadStep(tr[i].op)
               /\ Succeeded(tr, "store") => ReadConfig(file) = last.config

\* The triggers the charm handles.
Triggers == {"install", "config_changed", "start", "stop", "restart", "reload"}

\* C17: after any trigger has been handled the status is Active or Blocked:
\* no failure escapes the handler and the status is never left at Maintenance.
C17_ActiveOrBlocked ==
    last.trigger \in Triggers
        => /\ status.kind \in {"active", "blocked"}
           /\ last.exc = NoErr

\* C18: after the framework's start event is handled from the initial, empty
\* unit state, a workload version has been reported and the status is Active.
C18_StartEventActive ==
    (last.trigger = "start_hook" /\ steps = 1)
        => /\ version # None
           /\ status.kind = "active"

\* C19: in Install, ConfigurationChanged and Reload every write to the
\* configuration store follows a successful validation, in the same handling,
\* of the snapshot written, and every fetch, environment render and unit render
\* follows that store write.
C19_ValidateStoreThenEffects ==
    last.trigger \in ConfigTriggers
        => LET tr == last.trace
           IN  /\ \A i \in DOMAIN tr : tr[i].op = "store"
                      => \E j \in 1..(i - 1) : tr[j].op = "validate" /\ tr[j].ok
               /\ Succeeded(tr, "store")
                      => /\ ReadConfig(file) = last.config
                         /\ ValidateConfig(ReadConfig(file)) = NoErr
               /\ \A i \in DOMAIN tr : tr[i].op \in {"fetch", "env", "units"}
                      => \E j \in 1..(i - 1) : tr[j].op = "store" /\ tr[j].ok

C19_Witness ==
    /\ last.trigger = "config_changed"
    /\ TraceOps(last.trace) = <<"validate", "store", "fetch", "set_version", "env", "restart">>
    /\ ReadConfig(file) = last.config
    /\ env[1].value = Chars_httpsUrl

\* The environment file _generate_environment_file writes for a snapshot.
EnvironmentOf(config) ==
    << EnvLine("HAPROXY_URL", config, "haproxy_url"),
       EnvLine("HAPROXY_USERNAME", config, "haproxy_username"),
       EnvLine("HAPROXY_PASSWORD", config, "haproxy_password") >>

\* C20: when a ConfigurationChanged or a Reload restarts or starts the service
\* for a new snapshot, the environment file holds that snapshot's haproxy_url,
\* haproxy_username and haproxy_password and the timer unit holds its
\* frequency.
C20_FilesCurrentAtRestart ==
    (/\ last.trigger \in {"config_changed", "reload"}
     /\ Performed(last.trace, "restart") \/ Performed(last.trace, "start"))
        => /\ env = EnvironmentOf(last.config)
           /\ unitFiles.timer = Format(Get(last.config, "frequency"))

\* C21: a fetch that fails at any of its steps (clear scratch, clone, narrow
\* to the subdirectory, remove destination, recreate destination, copy) leaves
\* the destination with exactly its prior contents or with exactly the complete
\* new subtree, never empty or partially copied.
C21_FetchAllOrNothing ==
    [][ (steps' = steps + 1 /\ Failed(last'.trace, "fetch"))
        => \/ artifact' = artifact
           \/ artifact' = Artifact("complete", last'.config) ]_vars

Up(u) == u.active /\ u.enabled

Down(u) == ~u.active /\ ~u.enabled

\* C22: the supervisor operations act on collector.service and
\* collector.timer only.  A fully successful start leaves both started and
\* enabled, a fully successful stop leaves both stopped and disabled, a fully
\* successful restart has the definitions reloaded and both started and
\* enabled.  When the service's commands succeeded and a command of the timer
\* failed, the service keeps its new state, the two units differ, and the
\* caller observes the failure.
C22_SupervisorUnits ==
    [][ (Handled("start") \/ Handled("stop") \/ Handled("restart"))
        => LET tr == last'.trace
               observed == \/ last'.exc # NoErr
                           \/ status'.kind = "blocked" /\ status'.err # NoErr
           IN  /\ DOMAIN units' = {"service", "timer"}
               /\ Succeeded(tr, "start") => Up(units'.service) /\ Up(units'.timer)
               /\ Succeeded(tr, "stop") => Down(units'.service) /\ Down(units'.timer)
               /\ Succeeded(tr, "restart")
                      => /\ loaded' = unitFiles'
                         /\ Up(units'.service) /\ Up(units'.timer)
               /\ ( /\ Failed(tr, "start") \/ Failed(tr, "restart")
                    /\ Down(units.service) /\ Down(units.timer)
                    /\ Up(units'.service) )
                      => ~Up(units'.timer) /\ observed
               /\ ( /\ Failed(tr, "stop")
                    /\ Up(units.service) /\ Up(units.timer)
                    /\ Down(units'.service) )
                      => ~Down(units'.timer) /\ observed ]_vars

\* C23: validation reports the first violated rule in the order: each required
\* field present and non-empty (frequency, collector_name, haproxy_name,
\* haproxy_url, haproxy_username, haproxy_password, github_repo, github_token,
\* release_tag), then haproxy_url starts with "http", then github_repo starts
\* with "https://"; CollectorCharm._validate_config and
\* ConfigValidator.validate_config give the same outcome and message for every
\* snapshot.
C23_ValidatorsAgree ==
    last.trigger \in ConfigTriggers
        => LET missing == MissingRequired(last.config)
           IN  /\ Performed(last.trace, "validate")
               /\ ValidateConfig(last.config) = ValidatorValidateConfig(last.config)
               /\ Succeeded(last.trace, "validate")
                      <=> ValidatorValidateConfig(last.config) = NoErr
               /\ missing # {}
                      => /\ ReportedError.what = "required"
                         /\ \E i \in missing :
                                /\ \A j \in missing : i <= j
                                /\ ReportedError.arg = RequiredFields[i][2]

\* C24: after a ConfigurationChanged whose fetch failed, a ConfigurationChanged
\* with the identical configuration attempts the fetch again, and it ends
\* Active only if that fetch succeeded.
C24_FailedFetchRetried ==
    [][ ( /\ last.trigger = "config_changed" /\ Failed(last.trace, "fetch")
          /\ status.kind = "blocked"
          /\ Handled("config_changed") /\ last'.config = last.config )
        => /\ Performed(last'.trace, "fetch")
           /\ status'.kind = "active" => Succeeded(last'.trace, "fetch") ]_vars

\* C25: whenever a workload version has been reported and the destination
\* holds a complete fetched artifact, the reported version is the release_tag
\* of the most recent successful fetch into the destination.
C25_VersionMatchesArtifact ==
    (version # None /\ artifact.state = "complete") => version = artifact.tag

====
